---- MODULE Spec2Model ----
(***************************************************************************)
(* XQueue certificate callbacks (lms/djangoapps/certificates/views/        *)
(* xqueue.py) and the certificate visibility rule                          *)
(* (lms/djangoapps/certificates/utils.py, exercised by tests/test_utils.py)*)
(***************************************************************************)
EXTENDS Integers, FiniteSets, Sequences, TLC

(* ------------------------------ bounds -------------------------------- *)

\* Bad requests a caller may make before BadRequestRateLimiter rejects it.
Threshold == 2

\* Generation tasks that may wait in the queue at once.
MaxTasks == 2

\* The clock reading of datetime.now(utc), and the latest date a course may
\* configure; dates are 0..MaxDate, so there are dates before, at and after Now.
Now == 1
MaxDate == 2

(* ------------------------------ values -------------------------------- *)

\* Python's None: a missing dict key read with .get(), a NULL column.
None == "None"

Callers == {"ip1", "ip2"}

\* The example certificates that exist, and the access key each was created with.
Uuids == {"u1", "u2"}
AccessKey == [u \in Uuids |-> IF u = "u1" THEN "k1" ELSE "k2"]

\* Values a caller may send.
SentUuids == Uuids \cup {"u9"}
SentKeys == {"k1", "k2", None}
SentReasons == {"r1", None}
SentUrls == {"url1", None}

\* Learners, course runs, and the legacy key of each learner's certificate row.
Students == {"s1", "s2"}
Courses == {"c1"}
GenRows == Students \X Courses
GenKey == [s \in Students |-> IF s = "s1" THEN "g1" ELSE "g2"]

\* Certificate statuses as certificate_status_for_student reports them;
\* "unavailable" stands for a learner without a GeneratedCertificate row.
Unavailable == "unavailable"
CertStatuses == {Unavailable, "downloadable", "notpassing"}
NoRows == [k \in GenRows |-> Unavailable]

STATUS_PENDING == "PENDING"
STATUS_SUCCESS == "SUCCESS"
STATUS_ERROR == "ERROR"

\* One POST field as the client sent it: not in request.POST at all, a string
\* that is not JSON, a JSON document that is not an object, or a JSON object.
Absent == [kind |-> "absent"]
NotJson == [kind |-> "text"]
JsonArray == [kind |-> "array"]

BodyObjects ==
    [kind : {"object"}, username : SentUuids, has_error : BOOLEAN,
     error_reason : SentReasons, url : SentUrls]
HeaderObjects == [kind : {"object"}, lms_key : SentKeys]

Bodies == {Absent, NotJson, JsonArray} \cup BodyObjects
Headers == {Absent, NotJson, JsonArray} \cup HeaderObjects

\* request.POST of one callback.
Requests == [xqueue_body : Bodies, xqueue_header : Headers]

(* ----------------------------- responses ------------------------------ *)

RateLimited == [code |-> 403, content |-> "Rate limit exceeded"]
MissingBody == [code |-> 400, content |-> "Parameter 'xqueue_body' is required."]
MissingHeader == [code |-> 400, content |-> "Parameter 'xqueue_header' is required."]
MalformedPayload == [code |-> 400, content |-> "Parameters must be JSON-serialized."]
NotFound == [code |-> 404, content |-> "Http404"]
MissingUrl ==
    [code |-> 400,
     content |-> "Parameter 'download_url' is required for successfully generated certificates."]
Handled == [code |-> 200, content |-> "return_code: 0"]
\* An exception no except clause of the view catches: the framework's 500.
Unhandled == [code |-> 500, content |-> "AttributeError"]
NoResponse == [code |-> 0, content |-> "no callback"]

(* ------------------------------- state -------------------------------- *)

VARIABLES
    certs,       \* ExampleCertificate rows: uuid -> [status, download_url, error_reason]
    counter,     \* BadRequestRateLimiter: bad requests of each caller in the window
    lastCaller,  \* the caller of the callback handled in the last step, or None
    lastResp,    \* its response (NoResponse: the last step was no callback)
    lookups,     \* the ExampleCertificate.objects.get calls it made
    writes,      \* the update_status calls it made
    visArgs,     \* arguments of should_certificate_be_visible
    visPc,       \* "ready" before the rule is applied to visArgs, then "done"
    visible,     \* the result of the rule once visPc is "done"
    generated,   \* GeneratedCertificate rows: <<username, course key>> -> status
    legacyPOST,  \* the request of the last update_certificate call, or NoRequest
    legacyResp,  \* its response
    tasks,       \* generation tasks enqueued and not yet run
    rc,          \* the request_certificate call in progress: its request, locals and position
    rcResp,      \* the response of the last finished request_certificate call
    handlers     \* callbacks for one example certificate that are handled concurrently

vars ==
    <<certs, counter, lastCaller, lastResp, lookups, writes, visArgs, visPc, visible,
      generated, legacyPOST, legacyResp, tasks, rc, rcResp, handlers>>
callbackVars == <<certs, counter, lastCaller, lastResp, lookups, writes>>
visVars == <<visArgs, visPc, visible>>
legacyVars == <<legacyPOST, legacyResp>>
requestVars == <<tasks, rc, rcResp>>

(* --------------------------- collaborators ---------------------------- *)

\* BadRequestRateLimiter.is_rate_limit_exceeded(request): the caller's counter
\* has exceeded the threshold within the current window.
is_rate_limit_exceeded(c) == counter[c] > Threshold

\* BadRequestRateLimiter.tick_request_counter(request): the counters after one
\* more bad request of caller c.
tick_request_counter(c) == [counter EXCEPT ![c] = @ + 1]

\* ExampleCertificate.update_status(status, error_reason=, download_url=): the
\* row takes the new status and stores the value that comes with it.
update_status(cert, status, error_reason, download_url) ==
    IF status = STATUS_ERROR
    THEN [cert EXCEPT !.status = STATUS_ERROR, !.error_reason = error_reason]
    ELSE [cert EXCEPT !.status = STATUS_SUCCESS, !.download_url = download_url]

\* json.loads of a POST field: ValueError for a string that is not JSON,
\* otherwise the decoded document (an object or some other JSON value).
ValueError == [kind |-> "ValueError"]
json_loads(field) == IF field.kind = "text" THEN ValueError ELSE field

\* value.get(key): a dict answers with the entry or None; any other decoded
\* JSON value has no .get and raises AttributeError.
AttributeError == "AttributeError"
dict_get_username(doc) == IF doc.kind = "object" THEN doc.username ELSE AttributeError
dict_get_lms_key(doc) == IF doc.kind = "object" THEN doc.lms_key ELSE AttributeError

(* -------------------- update_example_certificate ---------------------- *)

\* What one run of the view does: its response, whether it ticks the caller's
\* bad-request counter, how many record lookups it makes, and the row it
\* writes (uuid None: no write).
NoWrite == [uuid |-> None, status |-> None, error_reason |-> None, download_url |-> None]
Reject(resp, tick, n) == [resp |-> resp, tick |-> tick, lookups |-> n, write |-> NoWrite]

\* ExampleCertificate.objects.get(uuid=uuid, access_key=access_key): the uuid of
\* the row found, or None for DoesNotExist.
\* (faulty variant: the access key is not part of the query)
objects_get_ByUuidOnly(uuid, access_key) == IF uuid \in Uuids THEN uuid ELSE None
objects_get(uuid, access_key) ==
    IF uuid \in Uuids /\ AccessKey[uuid] = access_key THEN uuid ELSE None

\* except ExampleCertificate.DoesNotExist: tick the counter and raise Http404.
\* (faulty variant: a known uuid with a wrong key gets an answer of its own)
DoesNotExist_Informative(uuid, access_key) ==
    IF uuid \in Uuids
    THEN Reject([code |-> 403, content |-> "bad access key"], TRUE, 1)
    ELSE Reject(NotFound, TRUE, 1)
DoesNotExist(uuid, access_key) == Reject(NotFound, TRUE, 1)

\* download_url is None: tick the counter and answer 400, nothing is written.
\* (faulty variants: the tick is forgotten; the row is written before the check)
NoDownloadUrl_NoTick(cert) == Reject(MissingUrl, FALSE, 1)
NoDownloadUrl_WriteFirst(cert) ==
    [resp |-> MissingUrl, tick |-> TRUE, lookups |-> 1,
     write |-> [uuid |-> cert, status |-> STATUS_SUCCESS,
                error_reason |-> None, download_url |-> None]]
NoDownloadUrl(cert) == Reject(MissingUrl, TRUE, 1)

\* The branch on 'error' in xqueue_body, once the row cert has been found.
\* (faulty variants: url is looked at before error; an error callback is
\* acknowledged without update_status)
UpdateFound_ErrorNotStored(xqueue_body, cert) ==
    IF xqueue_body.has_error
    THEN [resp |-> Handled, tick |-> FALSE, lookups |-> 1, write |-> NoWrite]
    ELSE IF xqueue_body.url = None
    THEN NoDownloadUrl(cert)
    ELSE [resp |-> Handled, tick |-> FALSE, lookups |-> 1,
          write |-> [uuid |-> cert, status |-> STATUS_SUCCESS,
                     error_reason |-> None, download_url |-> xqueue_body.url]]
UpdateFound_UrlFirst(xqueue_body, cert) ==
    IF xqueue_body.url # None
    THEN [resp |-> Handled, tick |-> FALSE, lookups |-> 1,
          write |-> [uuid |-> cert, status |-> STATUS_SUCCESS,
                     error_reason |-> None, download_url |-> xqueue_body.url]]
    ELSE IF xqueue_body.has_error
    THEN [resp |-> Handled, tick |-> FALSE, lookups |-> 1,
          write |-> [uuid |-> cert, status |-> STATUS_ERROR,
                     error_reason |-> xqueue_body.error_reason, download_url |-> None]]
    ELSE NoDownloadUrl(cert)
UpdateFound(xqueue_body, cert) ==
    IF xqueue_body.has_error
    THEN [resp |-> Handled, tick |-> FALSE, lookups |-> 1,
          write |-> [uuid |-> cert, status |-> STATUS_ERROR,
                     error_reason |-> xqueue_body.error_reason, download_url |-> None]]
    ELSE IF xqueue_body.url = None
    THEN NoDownloadUrl(cert)
    ELSE [resp |-> Handled, tick |-> FALSE, lookups |-> 1,
          write |-> [uuid |-> cert, status |-> STATUS_SUCCESS,
                     error_reason |-> None, download_url |-> xqueue_body.url]]

\* The try block around the lookup: both .get calls, then objects.get.
Lookup(xqueue_body, xqueue_header) ==
    LET uuid == dict_get_username(xqueue_body)
        access_key == dict_get_lms_key(xqueue_header)
    IN  IF uuid = AttributeError \/ access_key = AttributeError
        THEN Reject(Unhandled, FALSE, 0)
        ELSE LET cert == objects_get(uuid, access_key)
             IN  IF cert = None
                 THEN DoesNotExist(uuid, access_key)
                 ELSE UpdateFound(xqueue_body, cert)

\* The parameter checks, in the order of the view.
\* (faulty variant: xqueue_header is looked for before xqueue_body)
CheckParameters_HeaderFirst(POST) ==
    IF POST.xqueue_header = Absent THEN Reject(MissingHeader, TRUE, 0)
    ELSE IF POST.xqueue_body = Absent THEN Reject(MissingBody, TRUE, 0)
    ELSE LET xqueue_body == json_loads(POST.xqueue_body)
             xqueue_header == json_loads(POST.xqueue_header)
         IN  IF xqueue_body = ValueError \/ xqueue_header = ValueError
             THEN Reject(MalformedPayload, TRUE, 0)
             ELSE Lookup(xqueue_body, xqueue_header)
CheckParameters(POST) ==
    IF POST.xqueue_body = Absent THEN Reject(MissingBody, TRUE, 0)
    ELSE IF POST.xqueue_header = Absent THEN Reject(MissingHeader, TRUE, 0)
    ELSE LET xqueue_body == json_loads(POST.xqueue_body)
             xqueue_header == json_loads(POST.xqueue_header)
         IN  IF xqueue_body = ValueError \/ xqueue_header = ValueError
             THEN Reject(MalformedPayload, TRUE, 0)
             ELSE Lookup(xqueue_body, xqueue_header)

\* The whole view for caller c: the rate limit is checked before anything else.
\* (faulty variants: the rate limit is not checked; a rate-limited request
\* counts as one more bad request)
View_NoRateLimit(c, POST) == CheckParameters(POST)
View_TickWhenLimited(c, POST) ==
    IF is_rate_limit_exceeded(c)
    THEN Reject(RateLimited, TRUE, 0)
    ELSE CheckParameters(POST)
View(c, POST) ==
    IF is_rate_limit_exceeded(c)
    THEN Reject(RateLimited, FALSE, 0)
    ELSE CheckParameters(POST)

\* The rows after the write of an outcome.
ApplyWrite(w) ==
    IF w.uuid = None
    THEN certs
    ELSE [certs EXCEPT ![w.uuid] =
              update_status(@, w.status, w.error_reason, w.download_url)]

(* ------------------------------ actions ------------------------------- *)

NewCert == [status |-> STATUS_PENDING, download_url |-> None, error_reason |-> None]

\* certificate_available_date: None (no date configured) or a date d, held as
\* the empty or the one-element sequence.
NoDate == << >>
Date(d) == <<d>>

NoVisArgs ==
    [display_behavior |-> "end", show_before_end |-> FALSE, has_ended |-> FALSE,
     available_date |-> NoDate, self_paced |-> FALSE]

\* The parts of the state before anything has used them.
CallbackIdle ==
    /\ certs = [u \in Uuids |-> NewCert]
    /\ counter = [c \in Callers |-> 0]
    /\ lastCaller = None
    /\ lastResp = NoResponse
    /\ lookups = 0
    /\ writes = 0
VisIdle ==
    /\ visArgs = NoVisArgs
    /\ visPc = "ready"
    /\ visible = FALSE
NoCall == [pc |-> "idle"]
NoRequest == [method |-> "none"]
CertIdle ==
    /\ legacyPOST = NoRequest
    /\ legacyResp = NoResponse
    /\ tasks = << >>
    /\ rc = NoCall
    /\ rcResp = NoResponse
RaceIdle == handlers = << >>

Init ==
    /\ CallbackIdle
    /\ VisIdle
    /\ generated = NoRows
    /\ CertIdle
    /\ RaceIdle

\* One callback from caller c with POST data POST.
update_example_certificate(c, POST) ==
    LET out == View(c, POST)
    IN  /\ certs' = ApplyWrite(out.write)
        /\ counter' = IF out.tick THEN tick_request_counter(c) ELSE counter
        /\ lastCaller' = c
        /\ lastResp' = out.resp
        /\ lookups' = out.lookups
        /\ writes' = IF out.write.uuid = None THEN 0 ELSE 1
        /\ UNCHANGED <<visVars, generated, legacyVars, requestVars, handlers>>

\* The rate limiter's window of caller c runs out: its counter starts again.
WindowExpires(c) ==
    /\ counter[c] > 0
    /\ counter' = [counter EXCEPT ![c] = 0]
    /\ lastCaller' = None
    /\ lastResp' = NoResponse
    /\ lookups' = 0
    /\ writes' = 0
    /\ UNCHANGED certs
    /\ UNCHANGED <<visVars, generated, legacyVars, requestVars, handlers>>

Next ==
    \/ \E c \in Callers, POST \in Requests : update_example_certificate(c, POST)
    \/ \E c \in Callers : WindowExpires(c)

Spec == Init /\ [][Next]_vars

(* ------------------- should_certificate_be_visible -------------------- *)

DisplayBehaviors == {"early_with_info", "early_no_info", "end", "unrecognized"}
Dates == {NoDate} \cup {Date(d) : d \in 0 .. MaxDate}

VisInputs ==
    [display_behavior : DisplayBehaviors, show_before_end : BOOLEAN,
     has_ended : BOOLEAN, available_date : Dates, self_paced : BOOLEAN]

\* The dates of the test cases: _LAST_MONTH and _LAST_WEEK lie before the clock
\* reading, _NEXT_WEEK after it.
LAST_MONTH == Date(Now - 1)
LAST_WEEK == Date(Now - 1)
NEXT_WEEK == Date(Now + 1)

\* The ddt.data rows of test_should_certificate_be_visible: the arguments and
\* the expected value.
Row(behavior, show, ended, date, paced, expected) ==
    [args |-> [display_behavior |-> behavior, show_before_end |-> show,
               has_ended |-> ended, available_date |-> date, self_paced |-> paced],
     expected_value |-> expected]
TestData ==
    { Row("early_with_info", TRUE, TRUE, LAST_MONTH, FALSE, TRUE),
      Row("early_no_info", FALSE, FALSE, LAST_MONTH, FALSE, TRUE),
      Row("end", TRUE, FALSE, LAST_MONTH, FALSE, TRUE),
      Row("end", FALSE, TRUE, LAST_MONTH, FALSE, TRUE),
      Row("end", FALSE, FALSE, NEXT_WEEK, FALSE, FALSE),
      Row("end", FALSE, FALSE, LAST_WEEK, FALSE, TRUE),
      Row("end", FALSE, FALSE, NoDate, FALSE, FALSE),
      Row("early_with_info", FALSE, FALSE, NoDate, FALSE, TRUE),
      Row("end", FALSE, FALSE, NEXT_WEEK, FALSE, FALSE),
      Row("end", FALSE, FALSE, NEXT_WEEK, TRUE, TRUE) }

\* The date is configured and lies strictly before the clock reading.
past_available_date(certificate_available_date) ==
    certificate_available_date # NoDate /\ certificate_available_date[1] < Now

\* (faulty variant: self_paced is ignored)
should_certificate_be_visible_NoSelfPaced(certificates_display_behavior, certificates_show_before_end, has_ended, certificate_available_date, self_paced) ==
    IF certificates_display_behavior = "early_with_info" THEN TRUE
    ELSE IF certificates_display_behavior = "early_no_info"
    THEN certificates_show_before_end \/ past_available_date(certificate_available_date)
    ELSE IF certificates_show_before_end THEN TRUE
    ELSE IF has_ended THEN TRUE
    ELSE IF certificate_available_date = NoDate THEN FALSE
    ELSE certificate_available_date[1] < Now

\* (faulty variant: "early_no_info" follows the flag alone, whatever the date)
should_certificate_be_visible_FlagOnly(certificates_display_behavior, certificates_show_before_end, has_ended, certificate_available_date, self_paced) ==
    IF self_paced THEN TRUE
    ELSE IF certificates_display_behavior = "early_with_info" THEN TRUE
    ELSE IF certificates_display_behavior = "early_no_info"
    THEN certificates_show_before_end
    ELSE IF certificates_show_before_end THEN TRUE
    ELSE IF has_ended THEN TRUE
    ELSE IF certificate_available_date = NoDate THEN FALSE
    ELSE certificate_available_date[1] < Now

\* (faulty variant: "early_no_info" is always shown)
should_certificate_be_visible_EarlyAlways(certificates_display_behavior, certificates_show_before_end, has_ended, certificate_available_date, self_paced) ==
    IF self_paced THEN TRUE
    ELSE IF certificates_display_behavior \in {"early_with_info", "early_no_info"} THEN TRUE
    ELSE IF certificates_show_before_end THEN TRUE
    ELSE IF has_ended THEN TRUE
    ELSE IF certificate_available_date = NoDate THEN FALSE
    ELSE certificate_available_date[1] < Now

\* (faulty variant: the course's end is not looked at)
should_certificate_be_visible_NoHasEnded(certificates_display_behavior, certificates_show_before_end, has_ended, certificate_available_date, self_paced) ==
    IF self_paced THEN TRUE
    ELSE IF certificates_display_behavior = "early_with_info" THEN TRUE
    ELSE IF certificates_display_behavior = "early_no_info"
    THEN certificates_show_before_end \/ past_available_date(certificate_available_date)
    ELSE IF certificates_show_before_end THEN TRUE
    ELSE IF certificate_available_date = NoDate THEN FALSE
    ELSE certificate_available_date[1] < Now

\* The decision policy, first matching branch decides; under "early_no_info" a
\* past available date shows the certificate as well, as the test cases expect.
should_certificate_be_visible(certificates_display_behavior, certificates_show_before_end, has_ended, certificate_available_date, self_paced) ==
    IF self_paced THEN TRUE
    ELSE IF certificates_display_behavior = "early_with_info" THEN TRUE
    ELSE IF certificates_display_behavior = "early_no_info"
    THEN certificates_show_before_end \/ past_available_date(certificate_available_date)
    ELSE IF certificates_show_before_end THEN TRUE
    ELSE IF has_ended THEN TRUE
    ELSE IF certificate_available_date = NoDate THEN FALSE
    ELSE certificate_available_date[1] < Now

InitVis ==
    /\ CallbackIdle
    /\ visArgs \in VisInputs
    /\ visPc = "ready"
    /\ visible = FALSE
    /\ generated = NoRows
    /\ CertIdle
    /\ RaceIdle

\* The rule is applied to the arguments at hand.
CallVisible ==
    /\ visPc = "ready"
    /\ visPc' = "done"
    /\ visible' = should_certificate_be_visible(
                      visArgs.display_behavior, visArgs.show_before_end,
                      visArgs.has_ended, visArgs.available_date, visArgs.self_paced)
    /\ UNCHANGED <<visArgs, callbackVars, generated, legacyVars, requestVars, handlers>>

\* Another course run is asked about.
NextCourseRun ==
    /\ visPc = "done"
    /\ visArgs' \in VisInputs
    /\ visPc' = "ready"
    /\ visible' = FALSE
    /\ UNCHANGED <<callbackVars, generated, legacyVars, requestVars, handlers>>

NextVis == CallVisible \/ NextCourseRun

SpecVis == InitVis /\ [][NextVis]_vars

(* ------------------------- update_certificate ------------------------- *)

\* A dict key the sender left out.
Missing == "Missing"

\* CourseKey.from_string: the course key of a well-formed identifier,
\* InvalidKeyError for anything else (None included).
InvalidKeyError == "InvalidKeyError"
CourseIds == {"course-v1:org+c1+run", "garbage"}
CourseKey_from_string(course_id) ==
    IF course_id = "course-v1:org+c1+run" THEN "c1" ELSE InvalidKeyError

LegacyBodyObjects ==
    [kind : {"object"}, username : Students \cup {Missing},
     course_id : CourseIds \cup {Missing}]
LegacyHeaderObjects == [kind : {"object"}, lms_key : {"g1", "g2", Missing}]
LegacyRequests ==
    [method : {"POST", "GET"},
     xqueue_body : {Absent, NotJson, JsonArray} \cup LegacyBodyObjects,
     xqueue_header : {Absent, NotJson, JsonArray} \cup LegacyHeaderObjects]

UnableToLookup == [code |-> 200, return_code |-> 1, content |-> "unable to lookup key"]
AllowlistCertificate == [code |-> 200, return_code |-> 1, content |-> "allowlist certificate"]
\* The view fell through without a response, or raised what it does not catch.
ReturnedNone == [code |-> 500, content |-> "view returned None"]
Raised(exception) == [code |-> 500, content |-> exception]

\* json.loads(request.POST.get(name)): TypeError for a field that is not
\* there (None), ValueError for a string that is not JSON.
TypeError == [kind |-> "TypeError"]
json_loads_POST_get(field) ==
    IF field = Absent THEN TypeError ELSE json_loads(field)

\* GeneratedCertificate.eligible_certificates.get(user__username=, course_id=,
\* key=): the row found, or NoRow for DoesNotExist.
NoRow == << >>
eligible_certificates_get(username, course_key, key) ==
    IF /\ <<username, course_key>> \in GenRows
       /\ generated[<<username, course_key>>] # Unavailable
       /\ GenKey[username] = key
    THEN <<username, course_key>>
    ELSE NoRow

\* What update_certificate does with the row it found: it logs that the
\* update is ignored and answers; write names the row it changes, if any.
\* (faulty variant: the row is marked downloadable, as the view once did)
CertFound_Updates(cert) ==
    [resp |-> AllowlistCertificate, write |-> cert, status |-> "downloadable"]
CertFound(cert) == [resp |-> AllowlistCertificate, write |-> NoRow, status |-> None]

\* (faulty variant: a lookup miss is raised as Http404)
CertNotFound_Raises == [resp |-> Raised("Http404"), write |-> NoRow, status |-> None]
CertNotFound == [resp |-> UnableToLookup, write |-> NoRow, status |-> None]

Fails(resp) == [resp |-> resp, write |-> NoRow, status |-> None]

\* The view, statement by statement.
LegacyView(request) ==
    IF request.method # "POST" THEN Fails(ReturnedNone)
    ELSE LET xqueue_body == json_loads_POST_get(request.xqueue_body)
             xqueue_header == json_loads_POST_get(request.xqueue_header)
         IN  IF xqueue_body = TypeError THEN Fails(Raised("TypeError"))
             ELSE IF xqueue_body = ValueError THEN Fails(Raised("ValueError"))
             ELSE IF xqueue_header = TypeError THEN Fails(Raised("TypeError"))
             ELSE IF xqueue_header = ValueError THEN Fails(Raised("ValueError"))
             ELSE IF xqueue_body.kind # "object" THEN Fails(Raised("TypeError"))
             ELSE IF xqueue_body.course_id = Missing THEN Fails(Raised("KeyError"))
             ELSE IF CourseKey_from_string(xqueue_body.course_id) = InvalidKeyError
             THEN Fails(Raised(InvalidKeyError))
             ELSE IF xqueue_body.username = Missing THEN Fails(Raised("KeyError"))
             ELSE IF xqueue_header.kind # "object" THEN Fails(Raised("TypeError"))
             ELSE IF xqueue_header.lms_key = Missing THEN Fails(Raised("KeyError"))
             ELSE LET cert == eligible_certificates_get(
                                  xqueue_body.username,
                                  CourseKey_from_string(xqueue_body.course_id),
                                  xqueue_header.lms_key)
                  IN  IF cert = NoRow THEN CertNotFound ELSE CertFound(cert)

\* One call of update_certificate.
update_certificate(request) ==
    LET out == LegacyView(request)
    IN  /\ generated' = IF out.write = NoRow
                         THEN generated
                         ELSE [generated EXCEPT ![out.write] = out.status]
        /\ legacyPOST' = request
        /\ legacyResp' = out.resp
        /\ UNCHANGED <<callbackVars, visVars, requestVars, handlers>>

InitLegacy ==
    /\ CallbackIdle
    /\ VisIdle
    /\ generated \in [GenRows -> CertStatuses]
    /\ CertIdle
    /\ RaceIdle

NextLegacy == \E request \in LegacyRequests : update_certificate(request)

SpecLegacy == InitLegacy /\ [][NextLegacy]_vars

(* ------------------------- request_certificate ----------------------- *)

\* request.user of a caller who is not logged in.
Anonymous == "AnonymousUser"
RequestUsers == Students \cup {Anonymous}

AnonymousResponse == [code |-> 200, add_status |-> "ERRORANONYMOUSUSER"]
StatusResponse(status) == [code |-> 200, add_status |-> status]

\* What the generation task may leave as the certificate's status.
TaskOutcomes == {"downloadable", "notpassing"}

\* certificate_status_for_student(student, course_key)['status'].
certificate_status_for_student(student, course_key) ==
    IF <<student, course_key>> \in GenRows
    THEN generated[<<student, course_key>>]
    ELSE Unavailable

\* The statements of the authenticated POST branch that touch shared state, in
\* program order: the status lookup, generate_certificate_task, the response.
\* (faulty variant: the task is enqueued before the status is looked up)
StepOrder_GenerateFirst == <<"generate", "status", "respond">>
StepOrder == <<"status", "generate", "respond">>

NextPc(pc) ==
    IF pc = StepOrder[3] THEN "done"
    ELSE IF pc = StepOrder[1] THEN StepOrder[2]
    ELSE StepOrder[3]

\* The branches taken before any shared state is touched: where the call
\* goes on, and the response when it ends at once.
\* (faulty variant: request.user.is_authenticated is not checked)
request_certificate_entry_NoAuthCheck(method, user, course_id) ==
    IF method # "POST" THEN [pc |-> "done", resp |-> ReturnedNone]
    ELSE IF CourseKey_from_string(course_id) = InvalidKeyError
    THEN [pc |-> "done", resp |-> Raised(InvalidKeyError)]
    ELSE [pc |-> StepOrder[1], resp |-> NoResponse]
request_certificate_entry(method, user, course_id) ==
    IF method # "POST" THEN [pc |-> "done", resp |-> ReturnedNone]
    ELSE IF user = Anonymous THEN [pc |-> "done", resp |-> AnonymousResponse]
    ELSE IF CourseKey_from_string(course_id) = InvalidKeyError
    THEN [pc |-> "done", resp |-> Raised(InvalidKeyError)]
    ELSE [pc |-> StepOrder[1], resp |-> NoResponse]

\* A request arrives; the tasks still waiting belong to earlier calls.
request_certificate(method, user, course_id) ==
    LET entry == request_certificate_entry(method, user, course_id)
    IN  /\ rc.pc \in {"idle", "done"}
        /\ Len(tasks) < MaxTasks
        /\ rc' = [pc |-> entry.pc, method |-> method, user |-> user,
                  course_id |-> course_id,
                  course_key |-> CourseKey_from_string(course_id),
                  status |-> None, enqueued |-> 0, enqueuedAtRead |-> 0,
                  ownRan |-> FALSE, ownRanAtRead |-> FALSE]
        /\ rcResp' = entry.resp
        /\ tasks' = [i \in 1 .. Len(tasks) |-> [tasks[i] EXCEPT !.own = FALSE]]
        /\ UNCHANGED <<callbackVars, visVars, generated, legacyVars, handlers>>

\* status = certificate_status_for_student(student, course_key)['status']
LookUpStatus ==
    /\ rc.pc = "status"
    /\ rc' = [rc EXCEPT !.pc = NextPc("status"),
                        !.status = certificate_status_for_student(rc.user, rc.course_key),
                        !.enqueuedAtRead = rc.enqueued,
                        !.ownRanAtRead = rc.ownRan]
    /\ UNCHANGED <<callbackVars, visVars, generated, legacyVars, tasks, rcResp, handlers>>

\* generate_certificate_task(student, course_key): fire and forget.
EnqueueTask ==
    /\ rc.pc = "generate"
    /\ tasks' = Append(tasks, [user |-> rc.user, course |-> rc.course_key, own |-> TRUE])
    /\ rc' = [rc EXCEPT !.pc = NextPc("generate"), !.enqueued = @ + 1]
    /\ UNCHANGED <<callbackVars, visVars, generated, legacyVars, rcResp, handlers>>

\* return HttpResponse(json.dumps({'add_status': status}))
Respond ==
    /\ rc.pc = "respond"
    /\ rcResp' = StatusResponse(rc.status)
    /\ rc' = [rc EXCEPT !.pc = NextPc("respond")]
    /\ UNCHANGED <<callbackVars, visVars, generated, legacyVars, tasks, handlers>>

\* A waiting task runs, in no particular order, and leaves a new status.
RunTask(i, outcome) ==
    LET t == tasks[i]
        row == <<t.user, t.course>>
    IN  /\ generated' = IF row \in GenRows
                         THEN [generated EXCEPT ![row] = outcome]
                         ELSE generated
        /\ tasks' = [j \in 1 .. Len(tasks) - 1 |-> IF j < i THEN tasks[j] ELSE tasks[j + 1]]
        /\ rc' = IF t.own /\ rc.pc # "idle" THEN [rc EXCEPT !.ownRan = TRUE] ELSE rc
        /\ UNCHANGED <<callbackVars, visVars, legacyVars, rcResp, handlers>>

InitRequest ==
    /\ CallbackIdle
    /\ VisIdle
    /\ generated \in [GenRows -> CertStatuses]
    /\ CertIdle
    /\ RaceIdle

NextRequest ==
    \/ \E method \in {"POST", "GET"}, user \in RequestUsers, course_id \in CourseIds :
           request_certificate(method, user, course_id)
    \/ LookUpStatus
    \/ EnqueueTask
    \/ Respond
    \/ \E i \in 1 .. Len(tasks), outcome \in TaskOutcomes : RunTask(i, outcome)

SpecRequest == InitRequest /\ [][NextRequest]_vars

(* ------------- concurrent update_example_certificate calls ------------ *)

\* Two callbacks for the example certificate "u1", each with the right access
\* key and with an error or a url, handled by two workers at once. A worker
\* loads the row (objects.get), then update_status changes the loaded instance
\* and saves all of its fields.
RaceUuid == "u1"
RaceBodies ==
    {b \in [kind : {"object"}, username : {RaceUuid}, has_error : BOOLEAN,
             error_reason : {"r1", "r2", None}, url : {"url1", "url2", None}] :
        b.has_error \/ b.url # None}

Handler(body) == [pc |-> "get", xqueue_body |-> body, cert |-> NewCert]

\* cert = ExampleCertificate.objects.get(uuid=uuid, access_key=access_key)
Get(i) ==
    /\ handlers[i].pc = "get"
    /\ handlers' = [handlers EXCEPT ![i].pc = "save", ![i].cert = certs[RaceUuid]]
    /\ UNCHANGED <<callbackVars, visVars, generated, legacyVars, requestVars>>

\* cert.update_status(...) on the instance loaded by Get: the save writes the
\* instance, not the row as it is now.
Save(i) ==
    LET w == UpdateFound(handlers[i].xqueue_body, RaceUuid).write
    IN  /\ handlers[i].pc = "save"
        /\ certs' = [certs EXCEPT ![RaceUuid] =
                         update_status(handlers[i].cert, w.status,
                                       w.error_reason, w.download_url)]
        /\ handlers' = [handlers EXCEPT ![i].pc = "done"]
        /\ UNCHANGED <<counter, lastCaller, lastResp, lookups, writes>>
        /\ UNCHANGED <<visVars, generated, legacyVars, requestVars>>

InitRace ==
    /\ CallbackIdle
    /\ VisIdle
    /\ generated = NoRows
    /\ CertIdle
    /\ handlers \in {<<Handler(b1), Handler(b2)>> : b1 \in RaceBodies, b2 \in RaceBodies}

NextRace ==
    \/ \E i \in 1 .. Len(handlers) : Get(i)
    \/ \E i \in 1 .. Len(handlers) : Save(i)

SpecRace == InitRace /\ [][NextRace]_vars

(* ------------------------------ claims -------------------------------- *)

\* The callback of the last step, if any.
Called == lastResp # NoResponse

ObjectRequests == [xqueue_body : BodyObjects, xqueue_header : HeaderObjects]

\* POST presents exactly the (uuid, access_key) pair of row u.
Presents(POST, u) ==
    /\ POST.xqueue_body.kind = "object"
    /\ POST.xqueue_header.kind = "object"
    /\ POST.xqueue_body.username = u
    /\ POST.xqueue_header.lms_key = AccessKey[u]

\* C1: in every reachable state, whatever callback arrives next, it writes
\* row u (and so can change its status, download_url or error_reason) only if
\* its body.username is u and its header.lms_key is u's access key; a request
\* with any other pair, the right uuid with another row's key included, writes
\* and changes no row.
C1_UpdateNeedsMatchingPair ==
    \A c \in Callers, POST \in Requests :
        LET out == View(c, POST)
        IN  \A u \in Uuids :
                (out.write.uuid = u \/ ApplyWrite(out.write)[u] # certs[u])
                    => Presents(POST, u)

\* A callback has updated row u1 while u2 is untouched.
C1_Witness ==
    /\ lastResp = Handled
    /\ writes = 1
    /\ certs["u1"].status = STATUS_SUCCESS
    /\ certs["u2"] = NewCert

\* C2: once a row's status is SUCCESS or ERROR, no step changes that status.
C2_TerminalStatusIsFinal ==
    [][\A u \in Uuids :
          certs[u].status \in {STATUS_SUCCESS, STATUS_ERROR}
              => certs'[u].status = certs[u].status]_vars

\* C3: a callback of a caller whose counter has exceeded the threshold is
\* answered RateLimited (403), makes no record lookup and changes no row.
C3_RateLimitedShortCircuits ==
    [][(Called' /\ is_rate_limit_exceeded(lastCaller'))
          => /\ lastResp' = RateLimited
             /\ lookups' = 0
             /\ writes' = 0
             /\ certs' = certs]_vars

\* A rate-limited caller was rejected although rows exist it could have updated.
C3_Witness ==
    /\ lastResp = RateLimited
    /\ counter[lastCaller] > Threshold
    /\ \E c \in Callers : c # lastCaller /\ ~is_rate_limit_exceeded(c)

\* C4: in every reachable state, two callbacks of the same caller that differ
\* only in the presented uuid, one unknown and one known but paired with a
\* wrong access key, get the same response and the same counter tick; when
\* the caller is not rate limited that is NotFound (404) and one tick.
C4_NotFoundIndistinguishable ==
    \A c \in Callers, P1 \in ObjectRequests, u \in Uuids :
        (P1.xqueue_body.username \notin Uuids /\ P1.xqueue_header.lms_key # AccessKey[u])
            => LET P2 == [P1 EXCEPT !.xqueue_body.username = u]
                   o1 == View(c, P1)
                   o2 == View(c, P2)
               IN  /\ o1.resp = o2.resp
                   /\ o1.tick = o2.tick
                   /\ o1.write = NoWrite /\ o2.write = NoWrite
                   /\ ~is_rate_limit_exceeded(c)
                          => o1.resp = NotFound /\ o1.tick

\* A lookup failed and was answered 404.
C4_Witness ==
    /\ lastResp = NotFound
    /\ lookups = 1
    /\ counter[lastCaller] > 0

FailedResponses == {MissingBody, MissingHeader, MalformedPayload, NotFound, MissingUrl}

\* C5: a callback that ends in a missing-body, missing-header,
\* malformed-payload, NotFound or missing-url failure adds exactly one to its
\* caller's counter and to no other; a callback that is handled (200) leaves
\* every counter as it was.
C5_CounterTicks ==
    [][Called' =>
          /\ lastResp' \in FailedResponses
                 => counter' = [counter EXCEPT ![lastCaller'] = @ + 1]
          /\ lastResp' = Handled => counter' = counter]_vars

\* A valid pair without error and url was answered 400 and counted.
C5_Witness ==
    /\ lastResp = MissingUrl
    /\ counter[lastCaller] = Threshold + 1

\* C6: for a callback with a valid pair whose caller is not rate limited: if
\* the body has an error field the row's status becomes ERROR and its
\* error_reason becomes body.error_reason (None included), also when the body
\* has a url as well; otherwise, if the body has a url, the status becomes
\* SUCCESS and download_url becomes that url; both are answered return_code 0.
C6_ErrorAndSuccessBranches ==
    \A c \in Callers, POST \in ObjectRequests, u \in Uuids :
        (Presents(POST, u) /\ ~is_rate_limit_exceeded(c))
            => LET out == View(c, POST)
                   new == ApplyWrite(out.write)[u]
                   body == POST.xqueue_body
               IN  /\ body.has_error
                          => /\ out.resp = Handled
                             /\ new.status = STATUS_ERROR
                             /\ new.error_reason = body.error_reason
                   /\ (~body.has_error /\ body.url # None)
                          => /\ out.resp = Handled
                             /\ new.status = STATUS_SUCCESS
                             /\ new.download_url = body.url

\* An error callback was handled and its reason stored.
C6_Witness ==
    /\ lastResp = Handled
    /\ writes = 1
    /\ certs["u1"].status = STATUS_ERROR
    /\ certs["u1"].error_reason = "r1"
    /\ certs["u2"].status = STATUS_SUCCESS
    /\ certs["u2"].download_url = "url1"

\* C7: a callback that ends in an error response (400, 403 or 404) leaves
\* every row as it was.
C7_ErrorsChangeNothing ==
    [][(Called' /\ lastResp'.code \in {400, 403, 404})
          => (certs' = certs /\ writes' = 0)]_vars

\* A row was found, the body had neither error nor url, and the row is still
\* PENDING.
C7_Witness ==
    /\ lastResp = MissingUrl
    /\ lookups = 1
    /\ \A u \in Uuids : certs[u] = NewCert

\* C8: a callback with both fields present, one of which is not JSON or is
\* JSON but no object, from a caller that is not rate limited, ends in
\* MalformedPayload (400) and one tick of the caller's counter.
C8_MalformedIsRejected ==
    [][\A c \in Callers, POST \in Requests :
          ( /\ POST.xqueue_body # Absent
            /\ POST.xqueue_header # Absent
            /\ \/ POST.xqueue_body.kind # "object"
               \/ POST.xqueue_header.kind # "object"
            /\ ~is_rate_limit_exceeded(c)
            /\ update_example_certificate(c, POST) )
          => /\ lastResp' = MalformedPayload
             /\ counter' = tick_request_counter(c)]_vars

\* C9: in every reachable state a row has a download_url only if its status
\* is SUCCESS and an error_reason only if its status is ERROR.
C9_FieldsMatchStatus ==
    \A u \in Uuids :
        /\ certs[u].download_url # None => certs[u].status = STATUS_SUCCESS
        /\ certs[u].error_reason # None => certs[u].status = STATUS_ERROR

\* C10: should_certificate_be_visible answers TRUE for every self-paced
\* input, whatever the display behaviour, flags and available date.
C10_SelfPacedAlwaysVisible ==
    (visPc = "done" /\ visArgs.self_paced) => visible = TRUE

\* A self-paced run whose certificates are otherwise gated by a future date.
C10_Witness ==
    /\ visPc = "done"
    /\ visible = TRUE
    /\ visArgs.self_paced
    /\ visArgs.display_behavior = "end"
    /\ ~visArgs.show_before_end
    /\ ~visArgs.has_ended
    /\ visArgs.available_date # NoDate
    /\ visArgs.available_date[1] > Now

\* The rule gives every test case of test_should_certificate_be_visible its
\* expected value.
TestsPass ==
    \A t \in TestData :
        (visPc = "done" /\ visArgs = t.args) => visible = t.expected_value

\* C11 (as claimed): with self_paced false and "early_no_info" the rule returns
\* exactly show_before_end, whatever has_ended and the available date are.
C11_EarlyNoInfoFollowsFlag ==
    (visPc = "done" /\ ~visArgs.self_paced /\ visArgs.display_behavior = "early_no_info")
        => visible = visArgs.show_before_end

\* C11 (amended): with self_paced false and "early_no_info" the rule returns
\* TRUE exactly when show_before_end is set or the available date is configured
\* and strictly before now, whatever has_ended is; with the date absent, now or
\* in the future it returns exactly show_before_end.
C11_EarlyNoInfoFlagOrPastDate ==
    (visPc = "done" /\ ~visArgs.self_paced /\ visArgs.display_behavior = "early_no_info")
        => /\ visible = (visArgs.show_before_end \/ past_available_date(visArgs.available_date))
           /\ ~past_available_date(visArgs.available_date)
                  => visible = visArgs.show_before_end

\* "early_no_info" without the flag, the course ended, the date in the future:
\* not shown.
C11_Witness ==
    /\ visPc = "done"
    /\ ~visArgs.self_paced
    /\ visArgs.display_behavior = "early_no_info"
    /\ ~visArgs.show_before_end
    /\ visArgs.has_ended
    /\ visArgs.available_date = NEXT_WEEK
    /\ visible = FALSE

\* C12: the rule returns TRUE for every input whose available date is
\* configured and strictly before now, for "early_with_info", "early_no_info"
\* and "end" and every combination of the two flags.
C12_PastDateAlwaysVisible ==
    ( /\ visPc = "done"
      /\ visArgs.display_behavior \in {"early_with_info", "early_no_info", "end"}
      /\ past_available_date(visArgs.available_date) )
        => visible = TRUE

\* The test case ('early_no_info', False, False, _LAST_MONTH, False): shown.
C12_Witness ==
    /\ visPc = "done"
    /\ visArgs = Row("early_no_info", FALSE, FALSE, LAST_MONTH, FALSE, TRUE).args
    /\ visible = TRUE

\* C13: with self_paced false and a display behaviour other than
\* "early_with_info" and "early_no_info", the rule returns TRUE exactly when
\* show_before_end is set, or has_ended is set, or the available date is
\* configured and strictly before now; an absent date, a date equal to now and
\* a future date all give FALSE when both flags are unset.
C13_EndBehaviour ==
    ( /\ visPc = "done"
      /\ ~visArgs.self_paced
      /\ visArgs.display_behavior \notin {"early_with_info", "early_no_info"} )
        => visible = ( \/ visArgs.show_before_end
                       \/ visArgs.has_ended
                       \/ /\ visArgs.available_date # NoDate
                          /\ visArgs.available_date[1] < Now )

\* An unrecognized behaviour, no flags, the date equal to now: not shown.
C13_Witness ==
    /\ visPc = "done"
    /\ ~visArgs.self_paced
    /\ visArgs.display_behavior = "unrecognized"
    /\ ~visArgs.show_before_end
    /\ ~visArgs.has_ended
    /\ visArgs.available_date = Date(Now)
    /\ visible = FALSE

\* The last update_certificate call was a POST whose fields are JSON objects
\* that carry username, a well-formed course_id and lms_key.
LegacyWellFormed ==
    /\ legacyPOST.method = "POST"
    /\ legacyPOST.xqueue_body.kind = "object"
    /\ legacyPOST.xqueue_header.kind = "object"
    /\ legacyPOST.xqueue_body.username # Missing
    /\ legacyPOST.xqueue_body.course_id = "course-v1:org+c1+run"
    /\ legacyPOST.xqueue_header.lms_key # Missing

\* The row that request names exists with the key it presents.
LegacyRowExists ==
    /\ generated[<<legacyPOST.xqueue_body.username, "c1">>] # Unavailable
    /\ legacyPOST.xqueue_header.lms_key = GenKey[legacyPOST.xqueue_body.username]

Eligible ==
    /\ rc.method = "POST"
    /\ rc.user # Anonymous
    /\ CourseKey_from_string(rc.course_id) # InvalidKeyError

\* C15 as stated: every POST whose course_id does not parse ends with
\* InvalidKeyError raised and nothing enqueued, whoever the caller is.
C15_UnparsableAlwaysRaises ==
    ( /\ rc.pc = "done"
      /\ rc.method = "POST"
      /\ CourseKey_from_string(rc.course_id) = InvalidKeyError )
        => (rcResp = Raised(InvalidKeyError) /\ rc.enqueued = 0)

\* C15: a POST to request_certificate enqueues a generation task exactly when
\* the caller is logged in and course_id parses, and then exactly one; an
\* anonymous caller gets "ERRORANONYMOUSUSER" and a logged-in caller with an
\* unparsable course_id gets InvalidKeyError raised, both with nothing enqueued.
C15_EnqueuesOnlyForValidCalls ==
    rc.pc # "idle" =>
        /\ rc.enqueued <= (IF Eligible THEN 1 ELSE 0)
        /\ rc.pc = "done" =>
              /\ rc.enqueued = (IF Eligible THEN 1 ELSE 0)
              /\ (rc.method = "POST" /\ rc.user = Anonymous)
                     => rcResp = AnonymousResponse
              /\ ( /\ rc.method = "POST"
                    /\ rc.user # Anonymous
                    /\ CourseKey_from_string(rc.course_id) = InvalidKeyError )
                     => rcResp = Raised(InvalidKeyError)

\* A finished call of a logged-in user has left its one task in the queue.
C15_Witness ==
    /\ rc.pc = "done"
    /\ Eligible
    /\ rc.enqueued = 1
    /\ \E i \in 1 .. Len(tasks) : tasks[i].own /\ tasks[i].user = rc.user

\* C16: when a call answers with a status, the status was looked up before
\* the call enqueued its task (so before that task could run), and the answer
\* is the status looked up then, whatever the task has done since.
C16_StatusReadBeforeEnqueue ==
    /\ rc.pc \in {"generate", "respond", "done"} /\ Eligible =>
          (rc.enqueued > 0 => rc.status # None)
    /\ (rc.pc = "done" /\ Eligible) =>
          /\ rc.enqueuedAtRead = 0
          /\ ~rc.ownRanAtRead
          /\ rcResp = StatusResponse(rc.status)

\* The call's own task ran and changed the status before the call answered;
\* the answer still carries the status from before.
C16_Witness ==
    /\ rc.pc = "done"
    /\ Eligible
    /\ rc.ownRan
    /\ rcResp = StatusResponse(Unavailable)
    /\ generated[<<rc.user, rc.course_key>>] = "downloadable"

\* C17: in every reachable state, whatever callback arrives next, the view
\* reports the first failure in the order rate limit, missing body, missing
\* header, payload that is not JSON, record lookup, error/url branch: a request
\* with neither field reports the missing body, a missing header is reported
\* before the body is decoded, a payload that is not JSON before any lookup,
\* and an unknown pair is answered NotFound whatever the body says about
\* error and url.
C17_FirstFailureInOrder ==
    \A c \in Callers, POST \in Requests :
        LET out == View(c, POST)
            body == POST.xqueue_body
            header == POST.xqueue_header
            limited == is_rate_limit_exceeded(c)
            objects == body.kind = "object" /\ header.kind = "object"
            known == \E u \in Uuids : Presents(POST, u)
        IN  /\ limited => out.resp = RateLimited
            /\ (~limited /\ body = Absent) => out.resp = MissingBody
            /\ (~limited /\ body # Absent /\ header = Absent)
                   => out.resp = MissingHeader
            /\ ( /\ ~limited
                  /\ body # Absent /\ header # Absent
                  /\ (body = NotJson \/ header = NotJson) )
                   => (out.resp = MalformedPayload /\ out.lookups = 0)
            /\ (~limited /\ objects /\ ~known)
                   => (out.resp = NotFound /\ out.lookups = 1)
            /\ (~limited /\ objects /\ known)
                   => /\ out.lookups = 1
                      /\ out.resp = IF body.has_error \/ body.url # None
                                    THEN Handled
                                    ELSE MissingUrl

\* A caller below the limit was stopped at the first parameter check.
C17_Witness ==
    /\ lastResp = MissingBody
    /\ lookups = 0
    /\ counter[lastCaller] = 1

\* The row one callback writes when nothing else has touched the record.
WrittenInFull(xqueue_body) ==
    IF xqueue_body.has_error
    THEN [status |-> STATUS_ERROR, download_url |-> None,
          error_reason |-> xqueue_body.error_reason]
    ELSE [status |-> STATUS_SUCCESS, download_url |-> xqueue_body.url,
          error_reason |-> None]

\* C18: when two valid callbacks for one example certificate have both been
\* handled concurrently, the row is the row one of them writes in full: its
\* status, download_url and error_reason come from the same callback.
C18_LastWriteWinsInFull ==
    (Len(handlers) = 2 /\ \A i \in 1 .. 2 : handlers[i].pc = "done")
        => \E i \in 1 .. 2 : certs[RaceUuid] = WrittenInFull(handlers[i].xqueue_body)

\* C19: a callback is answered return_code 0 exactly when it made one
\* update_status call, on the row it looked up; a callback answered 400, 403
\* or 404 made none, and no callback makes more than one.
C19_HandledIffOneWrite ==
    [][Called' =>
          /\ writes' \in {0, 1}
          /\ (lastResp' = Handled) <=> (writes' = 1)
          /\ lastResp' = Handled => lookups' = 1
          /\ lastResp'.code \in {400, 403, 404} => writes' = 0]_vars

\* A handled callback wrote the row it had looked up.
C19_Witness ==
    /\ lastResp = Handled
    /\ lookups = 1
    /\ writes = 1
    /\ \E u \in Uuids : certs[u] # NewCert

\* C20: a callback answered RateLimited (403) leaves every counter as it was.
C20_RateLimitedDoesNotTick ==
    [][(Called' /\ lastResp' = RateLimited) => counter' = counter]_vars

\* A caller over the limit was rejected and its counter stands where the last
\* counted failure left it.
C20_Witness ==
    /\ lastResp = RateLimited
    /\ lookups = 0
    /\ counter[lastCaller] = Threshold + 1

====
